---- MODULE Spec2Model ----
(***************************************************************************)
(* Model of samcli/lib/bootstrap/nested_stack/nested_stack_manager.py:     *)
(* NestedStackManager, which moves the dependencies of the functions of a  *)
(* template into per-function layer folders, declares one layer per        *)
(* function in a nested stack and patches the template to reference it.    *)
(*                                                                         *)
(* Strings the code inspects character by character (runtimes) are         *)
(* sequences of one-character strings; file system paths are sequences of  *)
(* path segments; names that are only compared or concatenated are strings.*)
(* Optional[T] is None or Some(v). The dicts and lists of a template that  *)
(* the code changes in place are objects on a heap, so that two places of  *)
(* a template can hold the same object.                                    *)
(***************************************************************************)
EXTENDS Naturals, Sequences, FiniteSets, TLC

VARIABLES
    current_template,   \* self._current_template, the caller's template
    artifacts,          \* self._app_build_result.artifacts (its keys)
    build_graph,        \* self._app_build_result.build_graph
    fs,                 \* the file system: a set of <<path, data>> entries
    pc,                 \* position of generate_auto_dependency_layer_stack
    template,           \* the local `template` (deep copy being patched)
    idx,                \* position of the for loop in zip_functions
    nested_stack_builder, \* self._nested_stack_builder: its added functions
    returned,           \* the value returned by the run, None before
    error,              \* the exception that left the run or the last call
    calls,              \* history: the update_layer_folder invocations, of
                        \* the current run or of the direct caller
    edits,              \* history: edits of a dependency source directory
    failures,           \* history: the file system steps that failed so far
    run                 \* history: the number of the current run, and the
                        \* builder's length and the file system at its start

vars == <<current_template, artifacts, build_graph, fs, pc, template, idx,
          nested_stack_builder, returned, error, calls, edits, failures, run>>

----------------------------------------------------------------------------
(* Bounds of the model *)

\* number of function resources of the input template
MaxFunctions == 2
\* number of direct update_layer_folder invocations explored
MaxCalls == 2
\* number of edits of the dependency source directory explored
MaxEdits == 1
\* number of runs of generate_auto_dependency_layer_stack on one manager
MaxRuns == 2
\* number of file system steps that the operating system makes fail
MaxFailures == 1

----------------------------------------------------------------------------
(* Optional values and strings *)

None == [none |-> TRUE]
Some(v) == [none |-> FALSE, val |-> v]

\* Python truthiness of an Optional[str]: neither None nor ""
Truthy(o) == (~o.none) /\ (o.val # <<>>)

\* str.startswith with one prefix
StartsWith(s, p) == Len(p) <= Len(s) /\ SubSeq(s, 1, Len(p)) = p

\* str.startswith with a tuple of prefixes
StartsWithAny(s, ps) == \E i \in 1..Len(ps) : StartsWith(s, ps[i])

----------------------------------------------------------------------------
(* Module constants of nested_stack_manager.py *)

NESTED_STACK_NAME == "AwsSamAutoDependencyLayerNestedStack"

AWS_SERVERLESS_FUNCTION == "AWS::Serverless::Function"
AWS_LAMBDA_FUNCTION == "AWS::Lambda::Function"
SUPPORTED_RESOURCES == {AWS_SERVERLESS_FUNCTION, AWS_LAMBDA_FUNCTION}

SUPPORTED_LANGUAGES ==
    << <<"p","y","t","h","o","n">>, <<"n","o","d","e","j","s">>, <<"j","a","v","a">> >>

ZIP == "Zip"
IMAGE == "Image"

\* runtimes used as inputs
Python39 == <<"p","y","t","h","o","n","3",".","9">>
Nodejs18 == <<"n","o","d","e","j","s","1","8",".","x">>
Java11 == <<"j","a","v","a","1","1">>
Ruby32 == <<"r","u","b","y","3",".","2">>

----------------------------------------------------------------------------
(* The file system *)

DirData == [dir |-> TRUE]
FileData(text) == [text |-> text]

IsPrefix(p, q) == Len(p) <= Len(q) /\ SubSeq(q, 1, Len(p)) = p
Prefixes(p) == {SubSeq(p, 1, k) : k \in 1..Len(p)}
Rel(q, p) == SubSeq(q, Len(p) + 1, Len(q))

\* Path.exists / os.path.isdir
PathExists(f, p) == \E e \in f : e[1] = p
IsDir(f, p) == <<p, DirData>> \in f

\* the entries strictly below directory p
Under(f, p) == {e \in f : IsPrefix(p, e[1]) /\ e[1] # p}
\* the tree rooted at p, p included
Tree(f, p) == {e \in f : IsPrefix(p, e[1])}

\* open(p, "w").write(data): creates or replaces the file
WriteFile(f, p, data) == {e \in f : e[1] # p} \cup {<<p, data>>}

\* shutil.rmtree(p)
rmtree(f, p) == f \ Tree(f, p)

\* Path.mkdir(parents=True): p and every missing ancestor
mkdir_parents(f, p) ==
    f \cup {<<q, DirData>> : q \in {r \in Prefixes(p) : ~PathExists(f, r)}}

\* the entries `items` of the tree below src, placed below dst
Placed(items, src, dst) == {<<dst \o Rel(e[1], src), e[2]>> : e \in items}

\* osutils.copytree(src, dst) restricted to `items`, a part of the tree below
\* src (all of it when the copy completes)
CopyItems(f, items, src, dst) ==
    LET new == Placed(items, src, dst)
    IN  {e \in f : \A n \in new : n[1] # e[1]} \cup new

copytree(f, src, dst) == CopyItems(f, Under(f, src), src, dst)

\* the data a write of `text` that fails part way can leave in the file:
\* the characters that had reached the file, any number of them below the
\* length of the text
CutShort(text) == {FileData(SubSeq(text, 1, k)) : k \in {n \in 0..Len(text) : n < Len(text)}}

\* what a failing shutil.rmtree(p) can leave of the tree at p: the removal
\* goes bottom up and stops at the first entry it cannot remove, so that the
\* rest holds p and, with each entry, the folders between p and the entry
RmtreeLeftovers(f, p) ==
    {S \in SUBSET Tree(f, p) :
        /\ S # {}
        /\ \A e \in S : \A q \in Prefixes(e[1]) :
              IsPrefix(p, q) => \E d \in S : d[1] = q}

\* what a failing Path.mkdir(parents=True) of p has created: the missing
\* folders above the one whose creation failed
MkdirLeftovers(f, p) ==
    LET missing == {r \in Prefixes(p) : ~PathExists(f, r)}
    IN  {{<<q, DirData>> : q \in {r \in missing : Len(r) < Len(m)}} : m \in missing}

\* what a failing osutils.copytree(src, dst) has placed below dst: a part of
\* the tree below src that is closed under parents (nothing when src cannot
\* be listed, all of it when the last step fails once the entry is placed),
\* and possibly the file whose copy failed, cut short
CopyLeftovers(f, src, dst) ==
    LET items == Under(f, src)
        parts == {S \in SUBSET items :
                    \A e \in S : \A q \in Prefixes(e[1]) :
                        (IsPrefix(src, q) /\ q # src) => \E d \in S : d[1] = q}
        next(S) == {e \in items \ S :
                      /\ "text" \in DOMAIN e[2]
                      /\ \/ Len(e[1]) = Len(src) + 1
                         \/ \E d \in S : d[1] = SubSeq(e[1], 1, Len(e[1]) - 1)}
    IN  {Placed(S, src, dst) : S \in parts}
          \cup UNION {UNION {{Placed(S, src, dst) \cup {<<dst \o Rel(e[1], src), d>>} :
                                d \in CutShort(e[2].text)} : e \in next(S)} :
                        S \in parts}

\* what a failing open(p, "w+") ... write(text) leaves: nothing when the
\* file cannot be opened, the file cut short when the write fails
WriteLeftovers(p, text) == {{}} \cup {{<<p, d>>} : d \in CutShort(text)}

----------------------------------------------------------------------------
(* Collaborators of the manager that live outside nested_stack_manager.py *)

\* workflow_config.get_layer_subfolder: the sub folder of a layer that holds
\* the dependencies of a runtime; no sub folder is defined (the call raises)
\* for a runtime outside the supported families
get_layer_subfolder(runtime) ==
    IF StartsWith(runtime, SUPPORTED_LANGUAGES[1]) THEN Some(<<"python">>)
    ELSE IF StartsWith(runtime, SUPPORTED_LANGUAGES[2]) THEN Some(<<"nodejs">>)
    ELSE IF StartsWith(runtime, SUPPORTED_LANGUAGES[3]) THEN Some(<<"java">>)
    ELSE None

\* NestedStackBuilder.get_layer_logical_id: derived from the function's name
get_layer_logical_id(function_logical_id) == function_logical_id \o "DepLayer"

----------------------------------------------------------------------------
(* update_layer_folder and its helper *)

README == "AWS_SAM_CLI_README"

ReadmeText(function_name) ==
    "This layer contains dependencies of function " \o function_name
        \o " and automatically added by AWS SAM CLI command 'sam sync'"

_add_layer_readme_info(f, dependencies_dir, function_name) ==
    WriteFile(f, dependencies_dir \o <<README>>, FileData(ReadmeText(function_name)))

\* outcomes of a call: the file system it leaves, the exception it raised
\* ("" when it returned) with its argument, and the value it returned
Raise(f, exc, arg) == [fs |-> f, raised |-> exc, arg |-> arg, value |-> None]
Return(f, v) == [fs |-> f, raised |-> "", arg |-> "", value |-> Some(v)]

\* a fault: the file system step of a call that the operating system makes
\* fail with OSError (permission, disk full), the entries the failing step
\* leaves in place of its whole effect, and whether the dependency folder
\* cannot be examined (no permission to search the folder above it)
NoFault == [at |-> "none", left |-> {}, blind |-> FALSE]

\* variant: only None counts as a missing runtime, "" does not
RuntimeMissing_NoneOnly(function_runtime) == function_runtime.none

\* line 147: `if not function_runtime`
RuntimeMissing(function_runtime) == ~Truthy(function_runtime)

\* variant: an existing layer folder is kept and built over
RemoveExisting_Never(f, layer_root_folder) == f

\* lines 151-152: an existing layer folder is removed with all it holds
RemoveExisting(f, layer_root_folder) ==
    IF PathExists(f, layer_root_folder) THEN rmtree(f, layer_root_folder) ELSE f

\* variant: the dependencies are placed at the layer root
LayerContentsFolder_Root(layer_root_folder, subfolder) == layer_root_folder

\* line 153: the folder of the layer that receives the dependencies
LayerContentsFolder(layer_root_folder, subfolder) == layer_root_folder \o subfolder

\* line 155: os.path.isdir answers False, and does not raise, also for a
\* folder that it cannot examine
isdir(f, p, fault) == IsDir(f, p) /\ ~fault.blind

\* lines 155-156: the dependencies are copied if os.path.isdir says that
\* their folder is one
CopyDependencies(f, dependencies_dir, layer_contents_folder, fault) ==
    IF isdir(f, dependencies_dir, fault)
    THEN copytree(f, dependencies_dir, layer_contents_folder)
    ELSE f

\* lines 135-158. A step that fails raises OSError and leaves fault.left in
\* place of what it would have done
update_layer_folder(f, build_dir, dependencies_dir, layer_logical_id, function_logical_id, function_runtime, fault) ==
    LET layer_root_folder == build_dir \o <<layer_logical_id>>
        f1 == RemoveExisting(f, layer_root_folder)
        subfolder == get_layer_subfolder(function_runtime.val)
        layer_contents_folder == LayerContentsFolder(layer_root_folder, subfolder.val)
        f2 == mkdir_parents(f1, layer_contents_folder)
        f3 == CopyDependencies(f2, dependencies_dir, layer_contents_folder, fault)
        f4 == _add_layer_readme_info(f3, layer_root_folder, function_logical_id)
    IN  IF RuntimeMissing(function_runtime)
            THEN Raise(f, "InvalidRuntimeDefinitionForFunction", function_logical_id)
        ELSE IF PathExists(f, layer_root_folder) /\ fault.at = "rmtree"
            THEN Raise(rmtree(f, layer_root_folder) \cup fault.left, "OSError", "")
        ELSE IF subfolder.none THEN Raise(f1, "UnsupportedRuntimeException", "")
        ELSE IF fault.at = "mkdir" THEN Raise(f1 \cup fault.left, "OSError", "")
        ELSE IF isdir(f2, dependencies_dir, fault) /\ fault.at = "copytree"
            THEN Raise(f2 \cup fault.left, "OSError", "")
        ELSE IF fault.at = "readme" THEN Raise(f3 \cup fault.left, "OSError", "")
        ELSE Return(f4, layer_root_folder)

\* whether a call reaches line 155: it has a runtime with a sub folder, and
\* neither the removal of the old layer folder nor mkdir failed
ReachesIsdir(f, build_dir, layer_logical_id, function_runtime, fault) ==
    /\ ~RuntimeMissing(function_runtime)
    /\ ~(PathExists(f, build_dir \o <<layer_logical_id>>) /\ fault.at = "rmtree")
    /\ ~get_layer_subfolder(function_runtime.val).none
    /\ fault.at # "mkdir"

\* the file system that a call that reaches line 155 has made by then: the
\* old layer folder is removed and the layer's sub folder is created
AtIsdir(f, build_dir, layer_logical_id, function_runtime) ==
    LET layer_root_folder == build_dir \o <<layer_logical_id>>
        subfolder == get_layer_subfolder(function_runtime.val)
    IN  mkdir_parents(RemoveExisting(f, layer_root_folder),
                      LayerContentsFolder(layer_root_folder, subfolder.val))

\* the faults the operating system can inject into one call with these
\* arguments on this file system, one failing step per call; whenever the
\* dependency folder is a folder at line 155, os.path.isdir may also be
\* unable to examine it
Faults(f, build_dir, dependencies_dir, layer_logical_id, function_logical_id, function_runtime) ==
    LET layer_root_folder == build_dir \o <<layer_logical_id>>
        subfolder == IF Truthy(function_runtime)
                     THEN get_layer_subfolder(function_runtime.val) ELSE None
        layer_contents_folder == layer_root_folder \o subfolder.val
        f2 == AtIsdir(f, build_dir, layer_logical_id, function_runtime)
        failing(at, leftovers) == {[at |-> at, left |-> l, blind |-> FALSE] : l \in leftovers}
        readme == failing("readme", WriteLeftovers(layer_root_folder \o <<README>>,
                                                   ReadmeText(function_logical_id)))
    IN  {NoFault}
          \cup failing("rmtree", RmtreeLeftovers(f, layer_root_folder))
          \cup (IF subfolder.none THEN {}
                ELSE failing("mkdir", MkdirLeftovers(rmtree(f, layer_root_folder), layer_contents_folder))
                       \cup failing("copytree", CopyLeftovers(f2, dependencies_dir, layer_contents_folder))
                       \cup readme
                       \cup (IF IsDir(f2, dependencies_dir)
                             THEN {[x EXCEPT !.blind = TRUE] : x \in {NoFault} \cup readme}
                             ELSE {}))

\* one entry of the history of invocations: the arguments, the file system
\* before and after, the outcome, what os.path.isdir answered at line 155
\* and what the dependency folder held then (FALSE and nothing for a call
\* that did not get to line 155)
CallRecord(build_dir, dependencies_dir, function_logical_id, function_runtime, before, fault, out) ==
    LET layer_logical_id == get_layer_logical_id(function_logical_id)
        reached == ReachesIsdir(before, build_dir, layer_logical_id, function_runtime, fault)
        f2 == AtIsdir(before, build_dir, layer_logical_id, function_runtime)
    IN  [build_dir |-> build_dir, dependencies_dir |-> dependencies_dir,
         layer_logical_id |-> layer_logical_id,
         function_logical_id |-> function_logical_id,
         function_runtime |-> function_runtime,
         before |-> before,
         isdir |-> reached /\ isdir(f2, dependencies_dir, fault),
         source |-> IF reached /\ IsDir(f2, dependencies_dir)
                    THEN Under(f2, dependencies_dir) ELSE {},
         after |-> out.fs, raised |-> out.raised, raised_arg |-> out.arg,
         value |-> out.value]

\* the faults among `faults` that can still be injected: a step fails only
\* while fewer than MaxFailures steps have failed
Affordable(faults) == {fault \in faults : fault.at = "none" \/ failures < MaxFailures}

----------------------------------------------------------------------------
(* Inputs: names, folders and initial file systems *)

FunctionNames == <<"Fn1", "Fn2", "Fn3", "Fn4">>
Functions == {FunctionNames[i] : i \in 1..MaxFunctions}

STACK_NAME == "app"
STACK_LOCATION == <<".aws-sam", "build", "template.yaml">>
BuildDir == <<".aws-sam", "auto-dependency-layer">>
DepsDir(fn) == <<".aws-sam", "deps", fn>>
NestedTemplateName == "nested_template.yaml"

BaseFs == {<< <<".aws-sam">>, DirData >>, << <<".aws-sam", "deps">>, DirData >>}

\* contents of a function's dependency folder: missing, empty, one package
SourceTrees(fn) ==
    LET d == DepsDir(fn)
        pkg == {<<d \o <<"requests">>, DirData>>,
                <<d \o <<"requests", "api.py">>, FileData("api v1")>>}
    IN  { {}, {<<d, DirData>>}, {<<d, DirData>>} \cup pkg }

\* what an earlier run may have left in the build folder for a function
StaleLayer(fn) ==
    LET root == BuildDir \o <<get_layer_logical_id(fn)>>
    IN  {<<BuildDir, DirData>>,
         <<BuildDir \o <<NestedTemplateName>>, FileData("nested template of an earlier run")>>,
         <<root, DirData>>,
         <<root \o <<"stale.txt">>, FileData("stale")>>,
         <<root \o <<"python">>, DirData>>,
         <<root \o <<"python", "old.py">>, FileData("old")>>}

\* the first function's dependency folder is missing, or it holds a package
\* and an earlier manager has left a layer for the function; the dependency
\* folders of the other functions are empty
InitialFs ==
    LET full(fn) == CHOOSE t \in SourceTrees(fn) : \A u \in SourceTrees(fn) : u \subseteq t
        others == {<<DepsDir(FunctionNames[i]), DirData>> : i \in 2..MaxFunctions}
    IN  {BaseFs \cup others,
         BaseFs \cup others \cup full(FunctionNames[1]) \cup StaleLayer(FunctionNames[1])}

\* entries an edit can put into a function's dependency folder
SourceCandidates(fn) ==
    UNION SourceTrees(fn)
        \cup {<<DepsDir(fn) \o <<"six.py">>, FileData("six v1")>>,
              <<DepsDir(fn) \o <<"requests", "api.py">>, FileData("api v2")>>}

Parent(p) == SubSeq(p, 1, Len(p) - 1)

----------------------------------------------------------------------------
(* Direct use of the static method update_layer_folder *)

\* a template without resources: a document and the heap of its objects
EmptyTemplate == [doc |-> [Transform |-> "AWS::Serverless-2016-10-31"], heap |-> <<>>]

\* the runtimes a direct caller passes: None, "", and a supported runtime
DirectRuntimes == {None, Some(<<>>), Some(Python39)}

DirectFunction == FunctionNames[1]

\* the dependency folders a direct caller passes: the function's, and a
\* folder inside the layer folder that the call rebuilds
DirectDependencies ==
    {DepsDir(DirectFunction), BuildDir \o <<get_layer_logical_id(DirectFunction), "python">>}

InitFolder ==
    /\ fs \in InitialFs
    /\ calls = <<>>
    /\ edits = 0
    /\ failures = 0
    /\ error = ""
    /\ pc = "idle"
    /\ current_template = EmptyTemplate
    /\ artifacts = {}
    /\ build_graph = <<>>
    /\ template = None
    /\ idx = 0
    /\ nested_stack_builder = <<>>
    /\ returned = None
    /\ run = [n |-> 0, builder0 |-> 0, fs0 |-> fs]

orchestrator_vars == <<current_template, artifacts, build_graph, pc, template, idx, nested_stack_builder, returned, run>>

\* NestedStackManager.update_layer_folder(BuildDir, dependencies_dir, layer id, fn, runtime)
CallUpdateLayerFolder ==
    /\ pc = "idle"
    /\ Len(calls) < MaxCalls
    /\ \E rt \in DirectRuntimes : \E dependencies_dir \in DirectDependencies :
       \E fault \in Affordable(Faults(fs, BuildDir, dependencies_dir, get_layer_logical_id(DirectFunction), DirectFunction, rt)) :
          LET fn == DirectFunction
              out == update_layer_folder(fs, BuildDir, dependencies_dir, get_layer_logical_id(fn), fn, rt, fault)
          IN  /\ fs' = out.fs
              /\ error' = out.raised
              /\ calls' = Append(calls, CallRecord(BuildDir, dependencies_dir, fn, rt, fs, fault, out))
              /\ failures' = IF out.raised = "OSError" THEN failures + 1 ELSE failures
    /\ UNCHANGED <<orchestrator_vars, edits>>

\* the build changes the dependency folder between two calls: an entry is
\* removed with what it holds, or an entry is added or rewritten
EditSource ==
    /\ pc = "idle"
    /\ edits < MaxEdits
    /\ LET d == DepsDir(DirectFunction)
       IN  \/ \E e \in Tree(fs, d) : fs' = fs \ Tree(fs, e[1])
           \/ \E c \in SourceCandidates(DirectFunction) :
                 /\ c \notin fs
                 /\ IsDir(fs, Parent(c[1]))
                 /\ ~IsDir(fs, c[1])
                 /\ fs' = WriteFile(fs, c[1], c[2])
    /\ edits' = edits + 1
    /\ UNCHANGED <<orchestrator_vars, calls, error, failures>>

NextFolder == CallUpdateLayerFolder \/ EditSource

SpecFolder == InitFolder /\ [][NextFolder]_vars

----------------------------------------------------------------------------
(* Templates, and the collaborators that read and write them *)

\* dict.get(key, default)
Get(d, key, default) == IF key \in DOMAIN d THEN d[key] ELSE default

\* d[key] = value
Put(d, key, value) == (key :> value) @@ d

\* A template is a document and a heap. The Properties dict of a function
\* resource and a Layers list are objects of the heap, held in the document
\* by reference: the code changes them in place, and two resources may hold
\* the same object (as two YAML aliases of one anchor do).
Ref(id) == [ref |-> id]
IsRef(v) == "ref" \in DOMAIN v

\* the value of a template: what comparing or dumping the template sees
PropertiesValue(heap, properties) ==
    [k \in DOMAIN properties |->
        IF k = "Layers" /\ IsRef(properties[k]) THEN heap[properties[k].ref] ELSE properties[k]]

ResourceValue(heap, resource) ==
    [k \in DOMAIN resource |->
        IF k = "Properties" /\ IsRef(resource[k])
        THEN PropertiesValue(heap, heap[resource[k].ref])
        ELSE resource[k]]

Value(t) ==
    [k \in DOMAIN t.doc |->
        IF k = "Resources"
        THEN [n \in DOMAIN t.doc[k] |-> ResourceValue(t.heap, t.doc[k][n])]
        ELSE t.doc[k]]

\* the order in which the resources of a template are listed
ResourceOrder == FunctionNames \o <<"Table">>

\* SamFunctionProvider.get_all: one Function per function resource of the
\* stack's template, in template order, named by its logical id, with the
\* runtime and the package type its properties give (ZIP by default)
get_all(t) ==
    LET resources == Get(Value(t), "Resources", <<>>)
        is_function(n) == n \in DOMAIN resources /\ resources[n].Type \in SUPPORTED_RESOURCES
        function(n) ==
            LET properties == Get(resources[n], "Properties", <<>>)
            IN  [name |-> n,
                 runtime |-> IF "Runtime" \in DOMAIN properties
                             THEN Some(properties["Runtime"]) ELSE None,
                 packagetype |-> Get(properties, "PackageType", ZIP)]
        names == SelectSeq(ResourceOrder, is_function)
    IN  [i \in 1..Len(names) |-> function(names[i])]

\* BuildGraph.get_function_build_definition_with_logical_id: the build
\* definition of the function, None when the graph has none
get_function_build_definition_with_logical_id(graph, function_logical_id) ==
    Get(graph, function_logical_id, None)

\* NestedStackBuilder.add_function: appends the layer of the function and
\* its output to the nested template; the output key is the value returned
layer_output_key(function_name) == get_layer_logical_id(function_name)

add_function(builder, stack_name, layer_contents_folder, function) ==
    Append(builder,
           [function |-> function.name,
            layer_logical_id |-> get_layer_logical_id(function.name),
            LayerName |-> stack_name \o "-" \o function.name \o "-DepLayer",
            ContentUri |-> layer_contents_folder,
            CompatibleRuntimes |-> <<function.runtime>>,
            output_key |-> layer_output_key(function.name)])

\* NestedStackBuilder.is_any_function_added
is_any_function_added(builder) == Len(builder) > 0

\* NestedStackBuilder.build_as_dict: the nested template built so far
build_as_dict(builder) == [yaml |-> builder]

\* NestedStackBuilder.get_nested_stack_reference_resource
get_nested_stack_reference_resource(nested_template_location) ==
    [Type |-> "AWS::CloudFormation::Stack",
     DeletionPolicy |-> "Delete",
     Properties |-> [TemplateURL |-> nested_template_location]]

\* template.move_template: writes the template to the destination file
move_template(f, src_template_path, dest_template_path, template_dict) ==
    WriteFile(f, dest_template_path, template_dict)

----------------------------------------------------------------------------
(* NestedStackManager *)

\* line 79: copy.deepcopy gives the same document over copies of the
\* objects; an object held at two places is copied once and stays shared
deepcopy(t) == t

\* line 84
zip_functions(t) == SelectSeq(get_all(t), LAMBDA function : function.packagetype = ZIP)

\* variant: any non-empty runtime is supported
is_runtime_supported_AnyRuntime(runtime) == Truthy(runtime)

\* lines 175-184
is_runtime_supported(runtime) ==
    IF (~Truthy(runtime)) \/ ~StartsWithAny(runtime.val, SUPPORTED_LANGUAGES)
    THEN FALSE
    ELSE TRUE

\* variant: the check that the function was built is missing
_is_function_supported_Unbuilt(function) == is_runtime_supported(function.runtime)

\* variant: the check of the runtime is missing
_is_function_supported_AnyRuntime(function) == function.name \in artifacts

\* lines 160-172
_is_function_supported(function) ==
    IF function.name \notin artifacts
    THEN FALSE
    ELSE is_runtime_supported(function.runtime)

\* lines 186-194
_get_dependencies_dir(function_logical_id) ==
    LET function_build_definition ==
            get_function_build_definition_with_logical_id(build_graph, function_logical_id)
    IN  IF function_build_definition.none
        THEN None
        ELSE function_build_definition.val.dependencies_dir

\* line 123: the reference appended to the function's layers
LayerReference(layer_output_key_) ==
    "Fn::GetAtt" :> <<NESTED_STACK_NAME, "Outputs." \o layer_output_key_>>

\* the list object that dict.get("Layers", []) makes for a function
NewLayers(function_name) == "new Layers of " \o function_name

\* lines 121-124: the template after the reference is added, and the
\* exception raised ("" if none). The Properties dict and the Layers list
\* the resource holds are changed in place, so every resource that holds
\* the same object sees the change; a default given by dict.get is a fresh
\* object, and what is stored in a fresh dict that nothing holds is lost; a
\* Layers value that is not a list (an intrinsic function) has no append
PatchFunction(t, function_name, reference) ==
    LET resource == t.doc["Resources"][function_name]
        has_properties == "Properties" \in DOMAIN resource
        function_properties == IF has_properties THEN t.heap[resource["Properties"].ref] ELSE <<>>
        has_layers == "Layers" \in DOMAIN function_properties
        function_layers == function_properties["Layers"]
    IN  IF has_layers /\ ~IsRef(function_layers)
            THEN [raised |-> "AttributeError", template |-> t]
        ELSE IF ~has_properties
            THEN [raised |-> "", template |-> t]
        ELSE IF has_layers
            THEN [raised |-> "",
                  template |-> [t EXCEPT !.heap[function_layers.ref] = Append(@, reference)]]
        ELSE [raised |-> "",
              template |->
                [t EXCEPT !.heap = (NewLayers(function_name) :> <<reference>>)
                                     @@ [t.heap EXCEPT ![resource["Properties"].ref] =
                                            Put(function_properties, "Layers", Ref(NewLayers(function_name)))]]]

\* lines 112-124: the file system, the exception raised ("" if none), the
\* template and the nested stack builder that _add_layer leaves
_add_layer(f, dependencies_dir, function, t, builder, fault) ==
    LET layer_logical_id == get_layer_logical_id(function.name)
        out == update_layer_folder(f, BuildDir, dependencies_dir, layer_logical_id, function.name, function.runtime, fault)
        builder1 == add_function(builder, STACK_NAME, out.value.val, function)
        key == builder1[Len(builder1)].output_key
        patch == PatchFunction(t, function.name, LayerReference(key))
    IN  IF out.raised # ""
        THEN [fs |-> out.fs, raised |-> out.raised, template |-> t, builder |-> builder, call |-> out]
        ELSE [fs |-> out.fs, raised |-> patch.raised, template |-> patch.template,
              builder |-> builder1, call |-> out]

\* `resources` (line 80) is the dict template["Resources"] when the template
\* has that key, and a fresh dict that the template does not hold otherwise
Resources(t) == Get(t.doc, "Resources", <<>>)
WithResources(t, resources) ==
    IF "Resources" \in DOMAIN t.doc THEN [t EXCEPT !.doc = Put(@, "Resources", resources)] ELSE t

----------------------------------------------------------------------------
(* Input templates and build results *)

Absent == <<>>

\* the Layers property of an input: a list, or an intrinsic function that
\* gives the list at deployment
LayersList(entries) == [list |-> entries]
LayersIntrinsic(function) == [intrinsic |-> function]
IsList(layers) == "list" \in DOMAIN layers

SharedLayer == [Ref |-> "SharedLayer"]
LayerArnsParameter == [Ref |-> "LayerArns"]

\* the Properties dict of a function resource; its Layers list is the
\* object layers_id
FunctionProperties(packagetype, runtime, layers, layers_id) ==
    ("Handler" :> "app.handler")
    @@ (IF packagetype.none THEN Absent ELSE "PackageType" :> packagetype.val)
    @@ (IF runtime.none THEN Absent ELSE "Runtime" :> runtime.val)
    @@ (IF layers.none THEN Absent
        ELSE "Layers" :> (IF IsList(layers.val) THEN Ref(layers_id) ELSE layers.val.intrinsic))

\* a function resource; its Properties dict is the object properties_id
FunctionResource(type, properties_id) == [Type |-> type, Properties |-> Ref(properties_id)]

TableResource == [Type |-> "AWS::DynamoDB::Table", Properties |-> [TableName |-> "orders"]]

BuildDefinition(dependencies_dir) == [dependencies_dir |-> dependencies_dir]

\* a function of the input: its resource, whether the build produced an
\* artifact for it, and its build definition in the build graph, if any
Setup(type, packagetype, runtime, layers, built, definition) ==
    [type |-> type, packagetype |-> packagetype, runtime |-> runtime, layers |-> layers,
     built |-> built, definition |-> definition]

\* the shapes of the first function: every combination of type, package
\* type, runtime, artifact and build definition, with every shape of Layers
\* for the combinations that reach _add_layer
FirstSetups ==
    LET path == Some(DepsDir(FunctionNames[1]))
        list == Some(LayersList(<<SharedLayer>>))
    IN  {s \in {Setup(type, packagetype, runtime, layers, built, definition) :
                  type \in SUPPORTED_RESOURCES \cup {"AWS::Serverless::LayerVersion"},
                  packagetype \in {None, Some(ZIP), Some(IMAGE)},
                  runtime \in {None, Some(Python39), Some(Nodejs18), Some(Java11), Some(Ruby32)},
                  layers \in {None, list, Some(LayersIntrinsic(LayerArnsParameter))},
                  built \in BOOLEAN,
                  definition \in {None, Some(BuildDefinition(None)),
                                  Some(BuildDefinition(Some(<<>>))), Some(BuildDefinition(path))}} :
            s.layers # list =>
                /\ s.type \in SUPPORTED_RESOURCES
                /\ s.packagetype # Some(IMAGE)
                /\ s.built
                /\ s.definition = Some(BuildDefinition(path))
                /\ s.runtime \in {Some(Python39), Some(Java11)}}

\* the shapes the first function takes next to other functions that vary
FirstSetupsAmongOthers ==
    LET path == Some(BuildDefinition(Some(DepsDir(FunctionNames[1]))))
        list == Some(LayersList(<<SharedLayer>>))
    IN  {Setup(AWS_SERVERLESS_FUNCTION, None, Some(Java11), list, TRUE, path),
         Setup(AWS_LAMBDA_FUNCTION, Some(ZIP), Some(Nodejs18), None, TRUE, path),
         Setup(AWS_SERVERLESS_FUNCTION, None, Some(Python39), Some(LayersIntrinsic(LayerArnsParameter)), TRUE, path),
         Setup(AWS_LAMBDA_FUNCTION, None, Some(Java11), list, FALSE, path),
         Setup(AWS_SERVERLESS_FUNCTION, Some(IMAGE), Some(Python39), list, TRUE, path)}

\* a function that does not qualify, next to a first function of any shape
Bystander(i) ==
    Setup(AWS_SERVERLESS_FUNCTION, Some(ZIP), Some(Ruby32), None, TRUE,
          Some(BuildDefinition(Some(DepsDir(FunctionNames[i])))))

\* the shapes of the other functions, qualifying or not
OtherSetups(i) ==
    LET path == Some(BuildDefinition(Some(DepsDir(FunctionNames[i]))))
        list == Some(LayersList(<<SharedLayer>>))
    IN  {Setup(AWS_LAMBDA_FUNCTION, None, Some(Java11), list, TRUE, path),
         Setup(AWS_LAMBDA_FUNCTION, None, Some(Java11), list, FALSE, path),
         Bystander(i)}

RECURSIVE Others(_, _)
Others(c, n) ==
    IF Len(c) = n THEN {c}
    ELSE UNION {Others(Append(c, s), n) : s \in OtherSetups(Len(c) + 1)}

RECURSIVE Bystanders(_, _)
Bystanders(c, n) ==
    IF Len(c) = n THEN c ELSE Bystanders(Append(c, Bystander(Len(c) + 1)), n)

Configs(n) ==
    {Bystanders(<<s>>, n) : s \in FirstSetups}
        \cup UNION {Others(<<s>>, n) : s \in FirstSetupsAmongOthers}

SameProperties(s, t) ==
    s.packagetype = t.packagetype /\ s.runtime = t.runtime /\ s.layers = t.layers

HasList(s) == (~s.layers.none) /\ IsList(s.layers.val)

\* the objects two resources of the template can hold in common: none, the
\* Layers list of the functions that have one, or the Properties dict of the
\* functions whose properties are those of the first
Sharings(config) ==
    {"none"}
        \cup (IF \E i, j \in 1..Len(config) : i < j /\ HasList(config[i]) /\ HasList(config[j])
              THEN {"layers"} ELSE {})
        \cup (IF \E j \in 2..Len(config) : SameProperties(config[j], config[1])
              THEN {"properties"} ELSE {})

TemplateOf(config, sharing) ==
    LET N == 1..Len(config)
        shares_properties(i) == sharing = "properties" /\ SameProperties(config[i], config[1])
        properties_id(i) ==
            IF shares_properties(i) THEN "Properties (shared)"
            ELSE "Properties of " \o FunctionNames[i]
        layers_id(i) ==
            IF sharing = "layers" \/ shares_properties(i) THEN "Layers (shared)"
            ELSE "Layers of " \o FunctionNames[i]
        properties_ids == {properties_id(i) : i \in N}
        layers_ids == {layers_id(i) : i \in {j \in N : HasList(config[j])}}
        properties(id) ==
            LET i == CHOOSE j \in N : properties_id(j) = id
            IN  FunctionProperties(config[i].packagetype, config[i].runtime, config[i].layers, layers_id(i))
        layers(id) ==
            config[CHOOSE j \in N : HasList(config[j]) /\ layers_id(j) = id].layers.val.list
    IN  [doc |->
            [Transform |-> "AWS::Serverless-2016-10-31",
             Resources |-> [n \in {FunctionNames[i] : i \in N} \cup {"Table"} |->
                              IF n = "Table" THEN TableResource
                              ELSE LET i == CHOOSE j \in N : FunctionNames[j] = n
                                   IN  FunctionResource(config[i].type, properties_id(i))]],
         heap |-> [id \in properties_ids \cup layers_ids |->
                     IF id \in properties_ids THEN properties(id) ELSE layers(id)]]

ArtifactsOf(config) == {FunctionNames[i] : i \in {j \in 1..Len(config) : config[j].built}}

BuildGraphOf(config) ==
    [n \in {FunctionNames[i] : i \in {j \in 1..Len(config) : ~config[j].definition.none}} |->
        config[CHOOSE i \in 1..Len(config) : FunctionNames[i] = n].definition]

Init ==
    /\ \/ /\ current_template = EmptyTemplate
          /\ artifacts = {}
          /\ build_graph = <<>>
       \/ \E config \in Configs(MaxFunctions) : \E sharing \in Sharings(config) :
             /\ current_template = TemplateOf(config, sharing)
             /\ artifacts = ArtifactsOf(config)
             /\ build_graph = BuildGraphOf(config)
    /\ fs \in InitialFs
    /\ pc = "start"
    /\ template = None
    /\ idx = 0
    /\ nested_stack_builder = <<>>
    /\ returned = None
    /\ error = ""
    /\ calls = <<>>
    /\ edits = 0
    /\ failures = 0
    /\ run = [n |-> 1, builder0 |-> 0, fs0 |-> fs]

inputs == <<current_template, artifacts, build_graph>>

----------------------------------------------------------------------------
(* generate_auto_dependency_layer_stack *)

\* the list of line 84, computed in each run from the fresh copy
ZipFunctions == zip_functions(deepcopy(current_template))

InLoop == pc = "loop" /\ idx <= Len(ZipFunctions)
AfterLoop == pc = "loop" /\ idx > Len(ZipFunctions)

\* lines 79-84, in the first run of the manager
Start ==
    /\ pc = "start"
    /\ template' = deepcopy(current_template)
    /\ idx' = 1
    /\ pc' = "loop"
    /\ UNCHANGED <<inputs, fs, nested_stack_builder, returned, error, calls, edits, failures, run>>

\* lines 79-84, when the method is called again on the same manager after a
\* run returned or raised: the copy is made anew, the builder that __init__
\* made keeps the functions added to it, the file system is as the earlier
\* run left it
CallAgain ==
    /\ pc \in {"done", "raised"}
    /\ run.n < MaxRuns
    /\ template' = deepcopy(current_template)
    /\ idx' = 1
    /\ pc' = "loop"
    /\ returned' = None
    /\ error' = ""
    /\ calls' = <<>>
    /\ run' = [n |-> run.n + 1, builder0 |-> Len(nested_stack_builder), fs0 |-> fs]
    /\ UNCHANGED <<inputs, fs, nested_stack_builder, edits, failures>>

\* lines 87-88
SkipUnsupported ==
    /\ InLoop
    /\ ~_is_function_supported(ZipFunctions[idx])
    /\ idx' = idx + 1
    /\ UNCHANGED <<inputs, fs, pc, template, nested_stack_builder, returned, error, calls, edits, failures, run>>

\* lines 90-96
SkipNoDependencies ==
    /\ InLoop
    /\ _is_function_supported(ZipFunctions[idx])
    /\ ~Truthy(_get_dependencies_dir(ZipFunctions[idx].name))
    /\ idx' = idx + 1
    /\ UNCHANGED <<inputs, fs, pc, template, nested_stack_builder, returned, error, calls, edits, failures, run>>

\* the outcomes of line 98 for the function the loop is at
AddLayerOutcomes ==
    LET zip_function == ZipFunctions[idx]
        dependencies_dir == _get_dependencies_dir(zip_function.name).val
    IN  {[result |-> _add_layer(fs, dependencies_dir, zip_function, template, nested_stack_builder, fault),
          dependencies_dir |-> dependencies_dir, fault |-> fault] :
            fault \in Affordable(Faults(fs, BuildDir, dependencies_dir, get_layer_logical_id(zip_function.name), zip_function.name, zip_function.runtime))}

\* the entry of the history for an outcome of line 98
AddLayerCall(o) ==
    CallRecord(BuildDir, o.dependencies_dir, ZipFunctions[idx].name, ZipFunctions[idx].runtime, fs, o.fault, o.result.call)

\* line 98, _add_layer returns
AddLayer ==
    /\ InLoop
    /\ _is_function_supported(ZipFunctions[idx])
    /\ Truthy(_get_dependencies_dir(ZipFunctions[idx].name))
    /\ \E o \in AddLayerOutcomes :
          /\ o.result.raised = ""
          /\ fs' = o.result.fs
          /\ template' = o.result.template
          /\ nested_stack_builder' = o.result.builder
          /\ calls' = Append(calls, AddLayerCall(o))
    /\ idx' = idx + 1
    /\ UNCHANGED <<inputs, pc, returned, error, edits, failures, run>>

\* variant: the exception is caught and the loop goes on
AddLayerRaises_Swallowed ==
    /\ InLoop
    /\ _is_function_supported(ZipFunctions[idx])
    /\ Truthy(_get_dependencies_dir(ZipFunctions[idx].name))
    /\ \E o \in AddLayerOutcomes :
          /\ o.result.raised # ""
          /\ fs' = o.result.fs
          /\ template' = o.result.template
          /\ nested_stack_builder' = o.result.builder
          /\ calls' = Append(calls, AddLayerCall(o))
          /\ failures' = IF o.result.raised = "OSError" THEN failures + 1 ELSE failures
    /\ idx' = idx + 1
    /\ UNCHANGED <<inputs, pc, returned, error, edits, run>>

\* line 98, _add_layer raises: nothing catches the exception
AddLayerRaises ==
    /\ InLoop
    /\ _is_function_supported(ZipFunctions[idx])
    /\ Truthy(_get_dependencies_dir(ZipFunctions[idx].name))
    /\ \E o \in AddLayerOutcomes :
          /\ o.result.raised # ""
          /\ fs' = o.result.fs
          /\ template' = o.result.template
          /\ nested_stack_builder' = o.result.builder
          /\ error' = o.result.raised
          /\ calls' = Append(calls, AddLayerCall(o))
          /\ failures' = IF o.result.raised = "OSError" THEN failures + 1 ELSE failures
    /\ pc' = "raised"
    /\ UNCHANGED <<inputs, idx, returned, edits, run>>

\* lines 100-102
ReturnUnchanged ==
    /\ AfterLoop
    /\ ~is_any_function_added(nested_stack_builder)
    /\ returned' = Some(template)
    /\ pc' = "done"
    /\ UNCHANGED <<inputs, fs, template, idx, nested_stack_builder, error, calls, edits, failures, run>>

\* variant: lines 107-109 are missing, the resource is not inserted
WriteNestedStack_NoInsert ==
    /\ AfterLoop
    /\ is_any_function_added(nested_stack_builder)
    /\ fs' = move_template(fs, STACK_LOCATION, BuildDir \o <<NestedTemplateName>>, build_as_dict(nested_stack_builder))
    /\ returned' = Some(template)
    /\ pc' = "done"
    /\ UNCHANGED <<inputs, template, idx, nested_stack_builder, error, calls, edits, failures, run>>

\* lines 104-110
WriteNestedStack ==
    /\ AfterLoop
    /\ is_any_function_added(nested_stack_builder)
    /\ LET nested_template_location == BuildDir \o <<NestedTemplateName>>
           patched == WithResources(template,
                          Put(Resources(template), NESTED_STACK_NAME,
                              get_nested_stack_reference_resource(nested_template_location)))
       IN  /\ fs' = move_template(fs, STACK_LOCATION, nested_template_location, build_as_dict(nested_stack_builder))
           /\ template' = patched
           /\ returned' = Some(patched)
    /\ pc' = "done"
    /\ UNCHANGED <<inputs, idx, nested_stack_builder, error, calls, edits, failures, run>>

\* line 105 raises: the nested template cannot be written, or its file is
\* left without the text
MoveTemplateRaises ==
    /\ AfterLoop
    /\ is_any_function_added(nested_stack_builder)
    /\ failures < MaxFailures
    /\ \/ fs' = fs
       \/ fs' = WriteFile(fs, BuildDir \o <<NestedTemplateName>>, FileData(""))
    /\ failures' = failures + 1
    /\ error' = "OSError"
    /\ pc' = "raised"
    /\ UNCHANGED <<inputs, template, idx, nested_stack_builder, returned, calls, edits, run>>

Next ==
    \/ Start
    \/ CallAgain
    \/ SkipUnsupported
    \/ SkipNoDependencies
    \/ AddLayer
    \/ AddLayerRaises
    \/ ReturnUnchanged
    \/ WriteNestedStack
    \/ MoveTemplateRaises

Spec == Init /\ [][Next]_vars

----------------------------------------------------------------------------
(* Vocabulary of the properties, stated on the inputs and the results *)

InputTemplate == Value(current_template)
ReturnedTemplate == Value(returned.val)
InputResources == Get(InputTemplate, "Resources", <<>>)
ReturnedResources == Get(ReturnedTemplate, "Resources", <<>>)

\* the entries add_function appended to the builder during the current run
AddedInRun == (run.builder0 + 1)..Len(nested_stack_builder)

\* the functions add_function was called for in the current run, and how often
Registered == {nested_stack_builder[i].function : i \in AddedInRun}
TimesRegistered(n) == Cardinality({i \in AddedInRun : nested_stack_builder[i].function = n})

LayersOf(resource) == Get(Get(resource, "Properties", <<>>), "Layers", <<>>)

\* a resource without the Layers of its properties
WithoutLayers(resource) ==
    [k \in DOMAIN resource |->
        IF k = "Properties"
        THEN [q \in DOMAIN resource[k] \ {"Layers"} |-> resource[k][q]]
        ELSE resource[k]]

SupportedPrefix(runtime) ==
    \E prefix \in {<<"p","y","t","h","o","n">>, <<"n","o","d","e","j","s">>, <<"j","a","v","a">>} :
        Len(runtime) >= Len(prefix) /\ \A k \in 1..Len(prefix) : runtime[k] = prefix[k]

\* the five conditions of the selection, read off the inputs
Qualifies(n) ==
    LET resource == InputResources[n]
        properties == resource["Properties"]
    IN  /\ ("PackageType" \in DOMAIN properties => properties["PackageType"] = "Zip")
        /\ resource["Type"] \in {"AWS::Serverless::Function", "AWS::Lambda::Function"}
        /\ "Runtime" \in DOMAIN properties
        /\ SupportedPrefix(properties["Runtime"])
        /\ n \in artifacts
        /\ n \in DOMAIN build_graph
        /\ ~build_graph[n].none
        /\ ~build_graph[n].val.dependencies_dir.none
        /\ build_graph[n].val.dependencies_dir.val # <<>>

NestedTemplateLocation == <<".aws-sam", "auto-dependency-layer", "nested_template.yaml">>

NestedStackInserted(resources) ==
    /\ NESTED_STACK_NAME \in DOMAIN resources
    /\ resources[NESTED_STACK_NAME]["Type"] = "AWS::CloudFormation::Stack"
    /\ resources[NESTED_STACK_NAME]["Properties"]["TemplateURL"] = NestedTemplateLocation

\* the nested template file of a file system, as a set of at most one entry
NestedFile(f) == {e \in f : e[1] = NestedTemplateLocation}

\* the current run wrote the nested template file
NestedWritten == NestedFile(fs) # NestedFile(run.fs0)

LayerRaised == \E i \in 1..Len(calls) : calls[i].raised # ""

----------------------------------------------------------------------------
(* Properties of generate_auto_dependency_layer_stack *)

\* C1: when the run returns, the returned template holds the nested stack
\* resource under the reserved name if and only if at least one function was
\* registered with the nested stack builder.
C1_NestedStackIffRegistered ==
    pc = "done" =>
        (NestedStackInserted(ReturnedResources) <=> Cardinality(AddedInRun) >= 1)

C1_Witness ==
    /\ pc = "done"
    /\ run.n = 2
    /\ run.builder0 >= 1
    /\ Cardinality(AddedInRun) >= 1
    /\ NestedStackInserted(ReturnedResources)

\* C2: only qualifying resources are ever registered, and when the run
\* returns a resource of the template is registered in the nested template
\* if and only if it qualifies: it is archive packaged, of a supported
\* resource type, of a runtime with a supported prefix, a key of the build
\* artifacts, and has a non-empty dependency folder in the build graph.
C2_SelectionCorrect ==
    /\ \A n \in Registered : n \in DOMAIN InputResources /\ Qualifies(n)
    /\ pc = "done" => \A n \in DOMAIN InputResources : (n \in Registered <=> Qualifies(n))

C2_Witness ==
    /\ pc = "done"
    /\ \E n \in DOMAIN InputResources : n \in Registered /\ Qualifies(n)
    /\ \E n \in DOMAIN InputResources :
          n \notin Registered /\ InputResources[n]["Type"] = "AWS::Lambda::Function"

\* C3: the returned template is a superset of the input: resources that
\* are not registered functions are unchanged, a registered function differs
\* only in its Layers, which keep the entries they had, in order, before the
\* appended one, and the only new top-level resource is the reserved one.
C3_StructuralSuperset ==
    pc = "done" =>
        /\ \A n \in DOMAIN InputResources \ Registered :
              n \in DOMAIN ReturnedResources /\ ReturnedResources[n] = InputResources[n]
        /\ \A n \in Registered :
              /\ n \in DOMAIN InputResources
              /\ n \in DOMAIN ReturnedResources
              /\ WithoutLayers(ReturnedResources[n]) = WithoutLayers(InputResources[n])
              /\ LET before == LayersOf(InputResources[n])
                     after == LayersOf(ReturnedResources[n])
                 IN  /\ Len(after) = Len(before) + 1
                     /\ \A k \in 1..Len(before) : after[k] = before[k]
        /\ DOMAIN ReturnedResources \ DOMAIN InputResources \subseteq {NESTED_STACK_NAME}
        /\ DOMAIN ReturnedTemplate = DOMAIN InputTemplate
        /\ \A k \in DOMAIN InputTemplate \ {"Resources"} : ReturnedTemplate[k] = InputTemplate[k]

\* C4: after a run, the Layers of each registered function hold exactly one
\* entry more than in the input, that entry is the GetAtt reference to the
\* output of the nested stack whose key add_function returned for the
\* function, and no function is patched or registered twice.
C4_OneReferencePerFunction ==
    pc = "done" =>
        \A n \in Registered :
            LET before == LayersOf(InputResources[n])
                after == LayersOf(ReturnedResources[n])
                entry == CHOOSE i \in AddedInRun : nested_stack_builder[i].function = n
                reference == "Fn::GetAtt" :> <<"AwsSamAutoDependencyLayerNestedStack",
                                               "Outputs." \o nested_stack_builder[entry].output_key>>
            IN  /\ Len(after) = Len(before) + 1
                /\ after[Len(after)] = reference
                /\ Cardinality({k \in 1..Len(after) : after[k] = reference}) = 1
                /\ TimesRegistered(n) = 1

\* C5: if no function qualifies, the run returns without error a template
\* equal to the input, without the reserved nested stack key.
C5_NoOpOnEmptySelection ==
    (\A n \in DOMAIN InputResources : ~Qualifies(n)) =>
        /\ pc # "raised"
        /\ error = ""
        /\ pc = "done" =>
              /\ ReturnedTemplate = InputTemplate
              /\ NESTED_STACK_NAME \notin DOMAIN ReturnedResources

C5_Witness ==
    /\ pc = "done"
    /\ \A n \in DOMAIN InputResources : ~Qualifies(n)
    /\ \E i \in 1..Len(ZipFunctions) :
          ZipFunctions[i].runtime = Some(Ruby32) /\ ZipFunctions[i].name \in artifacts
    /\ ReturnedTemplate = InputTemplate

\* C8: once the construction of a layer folder raised, the run has ended
\* with that exception, returns no template, has not written the nested
\* template file and has not inserted the nested stack resource; a run that
\* raised returns no template; the nested template file is written only
\* after the loop over the functions ended, without a failed construction.
C8_FailedRunEmitsNothing ==
    /\ LayerRaised =>
          /\ pc = "raised"
          /\ calls[Len(calls)].raised # "" /\ error = calls[Len(calls)].raised
          /\ returned = None
          /\ ~NestedWritten
          /\ NESTED_STACK_NAME \notin DOMAIN Get(Value(template), "Resources", <<>>)
    /\ pc = "raised" => returned = None
    /\ NestedWritten =>
          /\ pc \in {"done", "raised"}
          /\ idx = Len(ZipFunctions) + 1
          /\ ~LayerRaised
    /\ (NestedWritten /\ pc = "done") => returned # None

C8_Witness ==
    /\ pc = "raised"
    /\ Len(calls) = 2
    /\ calls[1].raised = ""
    /\ calls[2].raised = "OSError"
    /\ calls[2].after # calls[2].before
    /\ Cardinality(AddedInRun) = 1

\* C10: the folder builder is invoked by the run only for functions that
\* are keys of the build artifacts and whose runtime is non-empty and starts
\* with python, nodejs or java.
C10_BuilderOnlyForEligible ==
    \A i \in 1..Len(calls) :
        /\ calls[i].function_logical_id \in artifacts
        /\ ~calls[i].function_runtime.none
        /\ calls[i].function_runtime.val # <<>>
        /\ SupportedPrefix(calls[i].function_runtime.val)
        /\ calls[i].raised \notin {"InvalidRuntimeDefinitionForFunction", "UnsupportedRuntimeException"}

C10_Witness ==
    /\ pc = "done"
    /\ Len(calls) = 1
    /\ Len(ZipFunctions) = 2
    /\ \E i \in 1..2 : ZipFunctions[i].runtime = Some(Ruby32)

----------------------------------------------------------------------------
(* Properties of update_layer_folder, stated on the history of its calls *)

Succeeded(c) == c.raised = ""
LayerRoot(c) == c.build_dir \o <<c.layer_logical_id>>
SameArguments(c, d) ==
    /\ c.build_dir = d.build_dir
    /\ c.dependencies_dir = d.dependencies_dir
    /\ c.layer_logical_id = d.layer_logical_id
    /\ c.function_logical_id = d.function_logical_id
    /\ c.function_runtime = d.function_runtime

\* the dependency source at the call, relative to its folder: what the
\* folder held when the call was at line 155
SourceAt(c) == {<<Rel(e[1], c.dependencies_dir), e[2]>> : e \in c.source}

\* the entries the call copied: the source, when os.path.isdir answered
\* that the folder is one
Copied(c) == IF c.isdir THEN SourceAt(c) ELSE {}

\* the layer folder as the call left it, relative to the layer root
LayerAfter(c) == {<<Rel(e[1], LayerRoot(c)), e[2]>> : e \in Tree(c.after, LayerRoot(c))}
LayerBefore(c) == {<<Rel(e[1], LayerRoot(c)), e[2]>> : e \in Tree(c.before, LayerRoot(c))}

\* the sub folder the layout policy gives for the call's runtime
PolicySubfolder(c) == get_layer_subfolder(c.function_runtime.val).val

\* a layer folder built from the call's arguments alone: the policy's sub
\* folder and the marker file
BareLayer(c) ==
    {<<SubSeq(PolicySubfolder(c), 1, k), [dir |-> TRUE]>> : k \in 0..Len(PolicySubfolder(c))}
        \cup {<< <<"AWS_SAM_CLI_README">>, [text |-> ReadmeText(c.function_logical_id)] >>}

\* a layer folder built from nothing but the call's arguments and the
\* dependency source at the call
FreshLayer(c) ==
    BareLayer(c) \cup {<<PolicySubfolder(c) \o e[1], e[2]>> : e \in SourceAt(c)}

C7_LayoutCorrect ==
    \A j \in 1..Len(calls) :
        Succeeded(calls[j]) =>
            LET c == calls[j]
                root == LayerRoot(c)
                contents == root \o PolicySubfolder(c)
            IN  /\ PolicySubfolder(c) # <<>>
                /\ \A e \in Copied(c) : <<contents \o e[1], e[2]>> \in c.after
                /\ \A e \in c.after :
                      (IsPrefix(root, e[1]) /\ Len(e[1]) = Len(root) + 1)
                          => \/ e = <<root \o <<PolicySubfolder(c)[1]>>, [dir |-> TRUE]>>
                             \/ e[1] = root \o <<"AWS_SAM_CLI_README">>
                /\ \A e \in c.after :
                      (IsPrefix(root, e[1]) /\ Len(e[1]) > Len(root) + 1)
                          => IsPrefix(contents, e[1])
                /\ \E e \in c.after :
                      e[1] = root \o <<"AWS_SAM_CLI_README">> /\ "text" \in DOMAIN e[2]

C7_Witness ==
    /\ Len(calls) = 2
    /\ Succeeded(calls[1]) /\ Succeeded(calls[2])
    /\ \E e \in Copied(calls[1]) : Len(e[1]) = 2 /\ "text" \in DOMAIN e[2]
    /\ ~PathExists(calls[2].before, calls[2].dependencies_dir)
    /\ PathExists(calls[2].after, LayerRoot(calls[2]) \o <<"AWS_SAM_CLI_README">>)

\* C9: a call with an absent runtime (None or "") raises
\* InvalidRuntimeDefinitionForFunction for the owning function and leaves
\* the file system as it found it.
C9_AbsentRuntimeRaises ==
    \A j \in 1..Len(calls) :
        (calls[j].function_runtime.none \/ calls[j].function_runtime.val = <<>>)
            => /\ calls[j].raised = "InvalidRuntimeDefinitionForFunction"
               /\ calls[j].raised_arg = calls[j].function_logical_id
               /\ calls[j].value = None
               /\ calls[j].after = calls[j].before
               /\ (j = Len(calls) => error = "InvalidRuntimeDefinitionForFunction")

C9_Witness ==
    /\ Len(calls) = 2
    /\ calls[1].function_runtime = None
    /\ calls[2].function_runtime = Some(<<>>)
    /\ calls[2].raised = "InvalidRuntimeDefinitionForFunction"
    /\ PathExists(calls[2].before, LayerRoot(calls[2]) \o <<"stale.txt">>)
    /\ PathExists(fs, LayerRoot(calls[2]) \o <<"stale.txt">>)

====
